---- MODULE Spec2Model ----
(***************************************************************************)
(* A model of the LC-3 emulator of src/src: the sign-extension utility     *)
(* (utils.rs), the Machine (machine.rs) and the run loop (main.rs).        *)
(*                                                                         *)
(* Words are u16: every value is kept in 0..65535.  Rust's `+` on u16      *)
(* wraps in a build without overflow checks (the release profile) and      *)
(* panics in a build with them (the dev profile); the build is chosen once *)
(* in Init (overflow_checks) and both are explored.                        *)
(*                                                                         *)
(* Memory is the 65536-word array of Machine.mem, kept as the finite       *)
(* function of its non-zero words: an address outside DOMAIN mem holds 0.  *)
(***************************************************************************)
EXTENDS Integers, Sequences, FiniteSets, TLC

VARIABLES
  reg,              \* Machine.reg: [u16; REG_SIZE]
  mem,              \* Machine.mem: the non-zero words of [u16; MEM_SIZE]
  halt,             \* Machine.halt
  panicked,         \* the process has panicked (panic!, arithmetic overflow)
  pc,               \* position of main: "new" after Machine::new(), "loop" after init()
  overflow_checks,  \* the build: TRUE = `+` panics on overflow, FALSE = it wraps
  instr,            \* local `instr` of the last step: the word it fetched
  old,              \* reg and mem as they were when the last step began
  nsteps,           \* number of calls of step so far
  nsetup,           \* number of loader writes so far
  se                \* a call of sign_extend on its own: arguments and outcome

vars == <<reg, mem, halt, panicked, pc, overflow_checks, instr, old, nsteps,
          nsetup, se>>

----------------------------------------------------------------------------
(* Bounds of the model *)

MaxSteps == 2       \* calls of step explored per run
MaxSetup == 3       \* loader writes (memory words, preset registers) per run

----------------------------------------------------------------------------
(* machine.rs constants *)

U16       == 2^16               \* number of values of a u16
MEM_SIZE  == 65536
REG_SIZE  == 10
PC        == 8
COND      == 9
POS       == 1
ZRO       == 2
NEG       == 4
START     == 12288              \* 0x3000, the address init() stores in PC

(* enum OP, in declaration order *)
OP_BR   == 0
OP_ADD  == 1
OP_LD   == 2
OP_ST   == 3
OP_JSR  == 4
OP_AND  == 5
OP_LDR  == 6
OP_STR  == 7
OP_RTI  == 8
OP_NOT  == 9
OP_LDI  == 10
OP_STI  == 11
OP_JMP  == 12
OP_RES  == 13
OP_LEA  == 14
OP_TRAP == 15

(* enum TRAP *)
TRAP_GETC  == 32    \* 0x20
TRAP_OUT   == 33    \* 0x21
TRAP_PUTS  == 34    \* 0x22
TRAP_IN    == 35    \* 0x23
TRAP_PUTSP == 36    \* 0x24
TRAP_HALT  == 37    \* 0x25

(* TRAP::from_u16(v) is Some(_) exactly for the declared discriminants *)
TrapVectors == {TRAP_GETC, TRAP_OUT, TRAP_PUTS, TRAP_IN, TRAP_PUTSP, TRAP_HALT}

----------------------------------------------------------------------------
(* u16 arithmetic *)

Word == 0 .. (U16 - 1)

Shr(a, k) == a \div (2^k)                  \* a >> k
Bit(a, k) == Shr(a, k) % 2                 \* (a >> k) & 0x1
Low(a, k) == a % (2^k)                     \* a & (2^k - 1)

RECURSIVE BitAndN(_, _, _)
BitAndN(a, b, k) ==
  IF k = 0 THEN 0
  ELSE (a % 2) * (b % 2) + 2 * BitAndN(a \div 2, b \div 2, k - 1)

BitAnd(a, b) == BitAndN(a, b, 16)          \* a & b
BitOr(a, b)  == a + b - BitAnd(a, b)       \* a | b
BitNot(a)    == (U16 - 1) - a              \* !a

(* a + b on u16: the wrapped sum, and whether the mathematical sum overflows *)
WrapAdd(a, b)   == (a + b) % U16
AddOverflows(a, b) == a + b >= U16
(* the build panics at this addition *)
AddPanics(a, b) == overflow_checks /\ AddOverflows(a, b)

(* a << k on u16 with k < 16: the bits shifted out are dropped.  A shift by *)
(* k >= 16 panics with overflow checks and shifts by k % 16 without them.   *)
Shl(a, k) == (a * 2^(k % 16)) % U16
ShlPanics(k) == overflow_checks /\ k >= 16

----------------------------------------------------------------------------
(* utils.rs *)

sign_extend(n, size) ==
  IF Bit(n, size - 1) = 0
  THEN n
  ELSE BitOr(n, Shl(U16 - 1, size))

(* `0xFFFF << size` is evaluated only when the sign bit is set *)
sign_extend_panics(n, size) == Bit(n, size - 1) = 1 /\ ShlPanics(size)

----------------------------------------------------------------------------
(* Machine: a record of the fields, so that a method is a function of it *)

Self == [reg |-> reg, mem |-> mem, halt |-> halt, panicked |-> panicked]

ZeroMem == [a \in {} |-> 0]

Machine_new ==
  [reg |-> [r \in 0 .. (REG_SIZE - 1) |-> 0],
   mem |-> ZeroMem,
   halt |-> TRUE,
   panicked |-> FALSE]

getr(m, r) == m.reg[r]

setr(m, r, val) == [m EXCEPT !.reg[r] = val]

panic(m) == [m EXCEPT !.panicked = TRUE]

addr(m, r, val) ==
  IF AddPanics(m.reg[r], val) THEN panic(m)
  ELSE [m EXCEPT !.reg[r] = WrapAdd(m.reg[r], val)]

getm(m, a) == IF a \in DOMAIN m.mem THEN m.mem[a] ELSE 0

setm(m, a, val) ==
  [m EXCEPT !.mem =
     IF val = 0
     THEN [x \in (DOMAIN m.mem) \ {a} |-> m.mem[x]]
     ELSE (a :> val) @@ m.mem]

(* init() as a reset: it rebuilds the machine instead of arming it *)
Machine_init_resets(m) == setr([Machine_new EXCEPT !.halt = FALSE], PC, START)

Machine_init(m) == setr([m EXCEPT !.halt = FALSE], PC, START)

(* val as i16 *)
AsI16(val) == IF val >= 32768 THEN val - U16 ELSE val

set_cond(m, r) ==
  LET val == getr(m, r)
  IN  IF val = 0 THEN setr(m, COND, ZRO)
      ELSE IF AsI16(val) > 0 THEN setr(m, COND, POS)
      ELSE setr(m, COND, NEG)

----------------------------------------------------------------------------
(* Machine::step: the arms of `match op`, each applied to the machine as   *)
(* it is after the fetch and `self.addr(PC, 1)`                            *)

(* a register field decoded with a mask one bit too wide: (w >> lo) & 0xF *)
Field3_wide(w, lo) == Shr(w, lo) % 16

Field3(w, lo) == Shr(w, lo) % 8            \* (w >> lo) & 0x7

ExecADD(m, w) ==
  LET dr  == Field3(w, 9)
      sr1 == Field3(w, 6)
      rhs == IF Bit(w, 5) = 1
             THEN sign_extend(Low(w, 5), 5)
             ELSE getr(m, Field3(w, 0))
  IN  IF AddPanics(getr(m, sr1), rhs) THEN panic(m)
      ELSE set_cond(setr(m, dr, WrapAdd(getr(m, sr1), rhs)), dr)

ExecAND(m, w) ==
  LET dr  == Field3(w, 9)
      sr1 == Field3(w, 6)
      rhs == IF Bit(w, 5) = 1
             THEN sign_extend(Low(w, 5), 5)
             ELSE getr(m, Field3(w, 0))
  IN  setr(m, dr, BitAnd(getr(m, sr1), rhs))

BranchTaken(m, w) ==
  LET n == Bit(w, 11) = 0
      z == Bit(w, 10) = 0
      p == Bit(w, 9) = 0
      N == getr(m, COND) = NEG
      Z == getr(m, COND) = ZRO
      P == getr(m, COND) = POS
  IN  (n /\ N) \/ (z /\ Z) \/ (p \/ P)

ExecBR(m, w) ==
  LET offset == sign_extend(Low(w, 9), 9)
  IN  IF BranchTaken(m, w) THEN addr(m, PC, offset) ELSE m

(* JMP written as a copy of the JSR arm: it also saves a return address *)
ExecJMP_links(m, w) ==
  LET base == Field3(w, 6)
  IN  setr(setr(m, 7, getr(m, PC)), PC, base)

ExecJMP(m, w) ==
  LET base == Field3(w, 6)
  IN  setr(m, PC, base)

ExecJSR(m, w) ==
  LET m1 == setr(m, 7, getr(m, PC))
  IN  IF Bit(w, 11) = 1
      THEN addr(m1, PC, sign_extend(Low(w, 11), 11))
      ELSE setr(m1, PC, Field3(w, 6))

ExecLD(m, w) ==
  LET dr     == Field3(w, 9)
      offset == sign_extend(Low(w, 9), 9)
  IN  IF AddPanics(getr(m, PC), offset) THEN panic(m)
      ELSE set_cond(setr(m, dr, getm(m, WrapAdd(getr(m, PC), offset))), dr)

ExecLDI(m, w) ==
  LET dr     == Field3(w, 9)
      offset == sign_extend(Low(w, 9), 9)
  IN  IF AddPanics(getr(m, PC), offset) THEN panic(m)
      ELSE set_cond(
             setr(m, dr, getm(m, getm(m, WrapAdd(getr(m, PC), offset)))), dr)

ExecLDR(m, w) ==
  LET dr     == Field3(w, 9)
      base   == Field3(w, 6)
      offset == sign_extend(Low(w, 6), 6)
  IN  IF AddPanics(base, offset) THEN panic(m)
      ELSE setr(m, dr, getm(m, WrapAdd(base, offset)))

ExecLEA(m, w) ==
  LET dr     == Field3(w, 9)
      offset == sign_extend(Low(w, 9), 9)
  IN  IF AddPanics(getr(m, PC), offset) THEN panic(m)
      ELSE set_cond(setr(m, dr, WrapAdd(getr(m, PC), offset)), dr)

ExecNOT(m, w) ==
  LET dr == Field3(w, 9)
  IN  set_cond(setr(m, dr, BitNot(getr(m, dr))), dr)

ExecRES_RTI(m, w) == m

ExecST(m, w) ==
  LET sr     == Field3(w, 9)
      offset == sign_extend(Low(w, 9), 9)
  IN  IF AddPanics(PC, offset) THEN panic(m)
      ELSE setm(m, WrapAdd(PC, offset), getr(m, sr))

ExecSTI(m, w) ==
  LET sr     == Field3(w, 9)
      offset == sign_extend(Low(w, 9), 9)
  IN  IF AddPanics(PC, offset) THEN panic(m)
      ELSE setm(m, getm(m, WrapAdd(PC, offset)), getr(m, sr))

ExecSTR(m, w) ==
  LET sr     == Field3(w, 9)
      base   == Field3(w, 6)
      offset == sign_extend(Low(w, 6), 6)
  IN  IF AddPanics(base, offset) THEN panic(m)
      ELSE setm(m, WrapAdd(base, offset), getr(m, sr))

ExecTRAP(m, w) ==
  LET m1 == setr(m, 7, getr(m, PC))
  IN  IF Low(w, 8) \in TrapVectors THEN m1 ELSE panic(m1)

Opcode(w) == Shr(w, 12)                    \* OP::from_u16(instr >> 12)

Exec(m, w) ==
  CASE Opcode(w) = OP_ADD  -> ExecADD(m, w)
    [] Opcode(w) = OP_AND  -> ExecAND(m, w)
    [] Opcode(w) = OP_BR   -> ExecBR(m, w)
    [] Opcode(w) = OP_JMP  -> ExecJMP(m, w)
    [] Opcode(w) = OP_JSR  -> ExecJSR(m, w)
    [] Opcode(w) = OP_LD   -> ExecLD(m, w)
    [] Opcode(w) = OP_LDI  -> ExecLDI(m, w)
    [] Opcode(w) = OP_LDR  -> ExecLDR(m, w)
    [] Opcode(w) = OP_LEA  -> ExecLEA(m, w)
    [] Opcode(w) = OP_NOT  -> ExecNOT(m, w)
    [] Opcode(w) \in {OP_RES, OP_RTI} -> ExecRES_RTI(m, w)
    [] Opcode(w) = OP_ST   -> ExecST(m, w)
    [] Opcode(w) = OP_STI  -> ExecSTI(m, w)
    [] Opcode(w) = OP_STR  -> ExecSTR(m, w)
    [] Opcode(w) = OP_TRAP -> ExecTRAP(m, w)

(* the register fields the arm of word w decodes: dr, sr, sr1, sr2, base *)
OperandFields(w) ==
  LET f11 == Field3(w, 9)
      f8  == Field3(w, 6)
      f2  == Field3(w, 0)
      op  == Opcode(w)
  IN  CASE op \in {OP_ADD, OP_AND} ->
             {f11, f8} \cup (IF Bit(w, 5) = 1 THEN {} ELSE {f2})
        [] op \in {OP_LD, OP_LDI, OP_LEA, OP_NOT, OP_ST, OP_STI} -> {f11}
        [] op \in {OP_LDR, OP_STR} -> {f11, f8}
        [] op = OP_JMP -> {f8}
        [] op = OP_JSR -> IF Bit(w, 11) = 1 THEN {} ELSE {f8}
        [] OTHER -> {}

(* the indexes step passes to getr, setr, addr and set_cond for word w:    *)
(* PC for the fetch, then those of the arm                                 *)
RegIndexes(w) ==
  LET f11 == Field3(w, 9)
      f8  == Field3(w, 6)
      f2  == Field3(w, 0)
      op  == Opcode(w)
  IN  {PC} \cup
      CASE op = OP_ADD ->
             {f11, f8, COND} \cup (IF Bit(w, 5) = 1 THEN {} ELSE {f2})
        [] op = OP_AND ->
             {f11, f8} \cup (IF Bit(w, 5) = 1 THEN {} ELSE {f2})
        [] op = OP_BR -> {COND, PC}
        [] op = OP_JMP -> {PC}
        [] op = OP_JSR -> {7, PC}
        [] op \in {OP_LD, OP_LDI, OP_LEA} -> {f11, PC, COND}
        [] op = OP_LDR -> {f11}
        [] op = OP_NOT -> {f11, COND}
        [] op \in {OP_ST, OP_STI, OP_STR} -> {f11}
        [] op = OP_TRAP -> {7, PC}
        [] OTHER -> {}

(* the word step fetches: self.getm(self.getr(PC)) *)
Fetch(m) == getm(m, getr(m, PC))

Machine_step(m) ==
  LET w  == Fetch(m)
      m1 == addr(m, PC, 1)
  IN  IF m1.panicked THEN m1 ELSE Exec(m1, w)

----------------------------------------------------------------------------
(* Instruction words, by the fields the arms of step decode *)

Encode(op, fields) == op * 4096 + fields

I_BR(nzp, off9)       == Encode(OP_BR, nzp * 512 + off9)
I_ADDr(dr, sr1, sr2)  == Encode(OP_ADD, dr * 512 + sr1 * 64 + sr2)
I_ADDi(dr, sr1, imm5) == Encode(OP_ADD, dr * 512 + sr1 * 64 + 32 + imm5)
I_ANDr(dr, sr1, sr2)  == Encode(OP_AND, dr * 512 + sr1 * 64 + sr2)
I_ANDi(dr, sr1, imm5) == Encode(OP_AND, dr * 512 + sr1 * 64 + 32 + imm5)
I_NOT(dr, sr)         == Encode(OP_NOT, dr * 512 + sr * 64 + 63)
I_LD(dr, off9)        == Encode(OP_LD, dr * 512 + off9)
I_LDI(dr, off9)       == Encode(OP_LDI, dr * 512 + off9)
I_LEA(dr, off9)       == Encode(OP_LEA, dr * 512 + off9)
I_LDR(dr, base, off6) == Encode(OP_LDR, dr * 512 + base * 64 + off6)
I_ST(sr, off9)        == Encode(OP_ST, sr * 512 + off9)
I_STI(sr, off9)       == Encode(OP_STI, sr * 512 + off9)
I_STR(sr, base, off6) == Encode(OP_STR, sr * 512 + base * 64 + off6)
I_JMP(base)           == Encode(OP_JMP, base * 64)
I_JSRR(base)          == Encode(OP_JSR, base * 64)
I_JSR(off11)          == Encode(OP_JSR, 2048 + off11)
I_TRAP(vect)          == Encode(OP_TRAP, vect)

(* a negative field value -k, as the two's complement of the field's width *)
Minus(k, width) == 2^width - k

----------------------------------------------------------------------------
(* The images and presets the loader draws from *)

DataA == START + 2              \* the word after the next instruction
DataB == START - 1              \* the word before the program

ProgramWords ==
       { I_BR(nzp, 2) : nzp \in 0 .. 7 }
  \cup { I_BR(7, Minus(3, 9)), I_BR(0, Minus(3, 9)) }
  \cup { I_ADDi(0, 1, 5), I_ADDi(0, 1, Minus(1, 5)), I_ADDr(0, 1, 2) }
  \cup { I_ANDi(0, 1, 0), I_ANDi(0, 1, Minus(1, 5)), I_ANDr(0, 1, 2) }
  \cup { I_NOT(0, 1) }
  \cup { I_LD(0, 1), I_LD(0, Minus(2, 9)), I_LDI(0, 1),
         I_LEA(0, 1), I_LEA(0, Minus(2, 9)) }
  \cup { I_LDR(0, 1, 1), I_LDR(0, 1, Minus(1, 6)) }
  \cup { I_ST(1, 1), I_ST(1, Minus(2, 9)), I_STI(1, 1), I_STR(1, 2, 1) }
  \cup { I_JMP(1), I_JSRR(1), I_JSR(2), I_JSR(Minus(3, 11)) }
  \cup { Encode(OP_RTI, 0), Encode(OP_RES, 0) }
  \cup { I_TRAP(v) : v \in TrapVectors \cup {0, TRAP_HALT + 1, 255} }

DataWords == {42, DataB, 32768}

Top == U16 - 1                  \* 0xFFFF, the last word of memory
TopWords == { Encode(OP_RTI, 0), Encode(OP_RES, 0), I_TRAP(TRAP_OUT) }

(* the words the loader may store at each address it writes *)
Image ==
     (START :> ProgramWords) @@ (DataA :> DataWords) @@ (DataB :> DataWords)
  @@ (Top :> TopWords)

(* the values a test presets a register to *)
Presets ==
     (1 :> {3, 32767, 65535, START + 1})
  @@ (2 :> {1, 65535})
  @@ (PC :> {65535})
  @@ (COND :> {POS, ZRO, NEG})

----------------------------------------------------------------------------
(* The run: main.rs, with the program loader and the test presets of       *)
(* registers as writes through setm and setr before the first step         *)

(* no call of sign_extend outside step is in progress *)
NoCall == [n |-> 0, size |-> 1, done |-> FALSE, out |-> 0, panicked |-> FALSE]

Init ==
  /\ reg = Machine_new.reg
  /\ mem = Machine_new.mem
  /\ halt = Machine_new.halt
  /\ panicked = Machine_new.panicked
  /\ pc = "new"
  /\ overflow_checks \in BOOLEAN
  /\ instr = 0
  /\ old = [reg |-> Machine_new.reg, mem |-> Machine_new.mem]
  /\ nsteps = 0
  /\ nsetup = 0
  /\ se = NoCall

(* the machine of the next state is m *)
Becomes(m) ==
  \E x \in {m} :
    /\ reg' = x.reg
    /\ mem' = x.mem
    /\ halt' = x.halt
    /\ panicked' = x.panicked

(* the value new() and init() have left in register r *)
Unset(r) == IF r = PC /\ pc = "loop" THEN START ELSE 0

MainInit ==
  /\ pc = "new"
  /\ Becomes(Machine_init(Self))
  /\ pc' = "loop"
  /\ UNCHANGED <<overflow_checks, instr, old, nsteps, nsetup, se>>

Load ==
  /\ nsteps = 0
  /\ nsetup < MaxSetup
  /\ \E a \in DOMAIN Image : \E w \in Image[a] :
        /\ getm(Self, a) = 0                 \* each word is written once
        /\ Becomes(setm(Self, a, w))
  /\ nsetup' = nsetup + 1
  /\ UNCHANGED <<pc, overflow_checks, instr, old, nsteps, se>>

Preset ==
  /\ nsteps = 0
  /\ nsetup < MaxSetup
  /\ \E r \in DOMAIN Presets : \E v \in Presets[r] :
        /\ getr(Self, r) = Unset(r)         \* each register is preset once
        /\ Becomes(setr(Self, r, v))
  /\ nsetup' = nsetup + 1
  /\ UNCHANGED <<pc, overflow_checks, instr, old, nsteps, se>>

(* one iteration of `while !m.halt { m.step(); }` *)
Step ==
  /\ pc = "loop"
  /\ ~halt
  /\ ~panicked
  /\ nsteps < MaxSteps
  /\ Becomes(Machine_step(Self))
  /\ instr' = Fetch(Self)
  /\ old' = [reg |-> reg, mem |-> mem]
  /\ nsteps' = nsteps + 1
  /\ UNCHANGED <<pc, overflow_checks, nsetup, se>>

Next == MainInit \/ Load \/ Preset \/ Step

Spec == Init /\ [][Next]_vars

----------------------------------------------------------------------------
(* sign_extend called on its own: sign_extend(n, size) for every width     *)
(* size in 1..16 and every n that has only its low `size` bits set         *)

Widths == 1 .. 16

SignExtendInit ==
  /\ reg = Machine_new.reg
  /\ mem = Machine_new.mem
  /\ halt = Machine_new.halt
  /\ panicked = Machine_new.panicked
  /\ pc = "new"
  /\ overflow_checks \in BOOLEAN
  /\ instr = 0
  /\ old = [reg |-> Machine_new.reg, mem |-> Machine_new.mem]
  /\ nsteps = 0
  /\ nsetup = 0
  /\ \E k \in Widths : \E v \in 0 .. (2^k - 1) :
        se = [NoCall EXCEPT !.n = v, !.size = k]

CallSignExtend ==
  /\ ~se.done
  /\ se' = IF sign_extend_panics(se.n, se.size)
           THEN [se EXCEPT !.done = TRUE, !.panicked = TRUE]
           ELSE [se EXCEPT !.done = TRUE, !.out = sign_extend(se.n, se.size)]
  /\ UNCHANGED <<reg, mem, halt, panicked, pc, overflow_checks, instr, old,
                 nsteps, nsetup>>

SpecSignExtend == SignExtendInit /\ [][CallSignExtend]_vars

IsWord(v) == v \in Int /\ v >= 0 /\ v < U16

TypeOK ==
  /\ DOMAIN reg = 0 .. (REG_SIZE - 1)
  /\ \A r \in DOMAIN reg : IsWord(reg[r])
  /\ \A a \in DOMAIN mem : IsWord(a) /\ a < MEM_SIZE /\ IsWord(mem[a]) /\ mem[a] # 0
  /\ halt \in BOOLEAN
  /\ panicked \in BOOLEAN
  /\ pc \in {"new", "loop"}
  /\ IsWord(instr)
  /\ nsteps \in 0 .. MaxSteps
  /\ nsetup \in 0 .. MaxSetup

----------------------------------------------------------------------------
(* What the claims speak of: the last step, its fetched word and the state *)
(* it started from                                                         *)

Stepped   == nsteps > 0                    \* step has been called
Completed == Stepped /\ ~panicked          \* and the last call returned

OldReg(r) == old.reg[r]
OldMem(a) == IF a \in DOMAIN old.mem THEN old.mem[a] ELSE 0
NowMem(a) == IF a \in DOMAIN mem THEN mem[a] ELSE 0

OldPC  == OldReg(PC)
NextPC == (OldPC + 1) % U16                \* the address after the instruction

(* the documented fields of the fetched word, sign-extended by arithmetic *)
SExt(v, width) == IF v >= 2^(width - 1) THEN (v + U16 - 2^width) % U16 ELSE v
Off9   == SExt(instr % 512, 9)
Off6   == SExt(instr % 64, 6)
Imm5   == SExt(instr % 32, 5)
DR     == (instr \div 512) % 8             \* bits[11:9], also sr of the stores
SR1    == (instr \div 64) % 8              \* bits[8:6], also base
SR2    == instr % 8                        \* bits[2:0]
Mode5  == (instr \div 32) % 2              \* bit 5
Vector == instr % 256                      \* bits[7:0]
Operand == IF Mode5 = 1 THEN Imm5 ELSE OldReg(SR2)

(* the condition code of a 16-bit value read as signed *)
FlagOf(v) == IF v = 0 THEN ZRO ELSE IF v < 32768 THEN POS ELSE NEG

IsOp(op) == Stepped /\ instr \div 4096 = op
IsTrapHalt == IsOp(OP_TRAP) /\ Vector = TRAP_HALT

----------------------------------------------------------------------------
(* C1: a step that fetches TRAP with vector 0x25 leaves halt true and PC   *)
(* equal to the old PC plus 1 (mod 2^16).                                  *)
C1_TrapHaltSetsHalt ==
  (Completed /\ IsTrapHalt) => (halt /\ reg[PC] = NextPC)

(* C2: under the run loop, once a TRAP with vector 0x25 has executed, no   *)
(* further instruction executes: registers and memory never change again.  *)
C2_NothingRunsAfterHalt ==
  [][(Completed /\ IsTrapHalt) => (reg' = reg /\ mem' = mem)]_vars

(* C3: BR moves PC to oldPC + 1 + sign_extend(bits[8:0]) exactly when      *)
(* (n and COND = NEG) or (z and COND = ZRO) or (p and COND = POS), and to  *)
(* oldPC + 1 otherwise, for COND in {POS, ZRO, NEG}.                       *)
C3_BranchDocumented ==
  LET n == (instr \div 2048) % 2 = 1
      z == (instr \div 1024) % 2 = 1
      p == (instr \div 512) % 2 = 1
      c == OldReg(COND)
      taken == (n /\ c = NEG) \/ (z /\ c = ZRO) \/ (p /\ c = POS)
  IN  (Completed /\ IsOp(OP_BR) /\ c \in {POS, ZRO, NEG}) =>
        reg[PC] = IF taken THEN (NextPC + Off9) % U16 ELSE NextPC

(* C4: every ADD step completes with dr = (old sr1 + operand) mod 2^16,    *)
(* negative immediates and overflowing sums included, and COND the flag of *)
(* the new dr.                                                             *)
C4_AddWraps ==
  IsOp(OP_ADD) =>
    /\ ~panicked
    /\ reg[DR] = (OldReg(SR1) + Operand) % U16
    /\ reg[COND] = FlagOf(reg[DR])

(* C5: step aborts only on an unsupported trap vector (no opcode is        *)
(* undefined): every other fetched word completes, with PC, register and   *)
(* address arithmetic taken mod 2^16.                                      *)
C5_AbortsOnlyOnBadTrap ==
  (Stepped /\ panicked) => (IsOp(OP_TRAP) /\ Vector \notin TrapVectors)

(* C6: AND leaves dr = old sr1 & operand and COND the flag of the new dr.  *)
C6_AndSetsFlags ==
  (Completed /\ IsOp(OP_AND)) =>
    /\ reg[DR] = BitAnd(OldReg(SR1), Operand)
    /\ reg[COND] = FlagOf(reg[DR])

(* C7: NOT leaves dr = the 16-bit complement of the old value of register  *)
(* sr (bits[8:6]), also when sr differs from dr, and COND its flag.        *)
C7_NotComplementsSr ==
  (Completed /\ IsOp(OP_NOT)) =>
    /\ reg[DR] = (U16 - 1) - OldReg(SR1)
    /\ reg[COND] = FlagOf(reg[DR])

(* C8: with P = oldPC + 1 and off = sign_extend(bits[8:0]), all mod 2^16,  *)
(* every LD step leaves dr = memory[P + off], every LDI step               *)
(* dr = memory[memory[P + off]], every LEA step dr = P + off; COND is the  *)
(* flag of the new dr.                                                     *)
C8_PcRelativeLoads ==
  LET ea == (NextPC + Off9) % U16
  IN  /\ IsOp(OP_LD)  => (~panicked /\ reg[DR] = OldMem(ea))
      /\ IsOp(OP_LDI) => (~panicked /\ reg[DR] = OldMem(OldMem(ea)))
      /\ IsOp(OP_LEA) => (~panicked /\ reg[DR] = ea)
      /\ (IsOp(OP_LD) \/ IsOp(OP_LDI) \/ IsOp(OP_LEA)) =>
           reg[COND] = FlagOf(reg[DR])

(* C9: LDR leaves dr = memory[(contents of register base + sign-extended   *)
(* bits[5:0]) mod 2^16] and COND the flag of the new dr.                   *)
C9_LdrBaseContents ==
  (Completed /\ IsOp(OP_LDR)) =>
    /\ reg[DR] = OldMem((OldReg(SR1) + Off6) % U16)
    /\ reg[COND] = FlagOf(reg[DR])

(* C10: with P = oldPC + 1, ST stores register sr at memory[P + off9], STI *)
(* at memory[memory[P + off9]], STR at memory[contents of base + off6];    *)
(* COND is not changed.                                                    *)
C10_StoresDocumented ==
  LET ea == (NextPC + Off9) % U16
  IN  /\ (Completed /\ IsOp(OP_ST)) => NowMem(ea) = OldReg(DR)
      /\ (Completed /\ IsOp(OP_STI)) => NowMem(OldMem(ea)) = OldReg(DR)
      /\ (Completed /\ IsOp(OP_STR)) =>
           NowMem((OldReg(SR1) + Off6) % U16) = OldReg(DR)
      /\ (Completed /\ (IsOp(OP_ST) \/ IsOp(OP_STI) \/ IsOp(OP_STR))) =>
           reg[COND] = OldReg(COND)

----------------------------------------------------------------------------
Off11  == SExt(instr % 2048, 11)
Mode11 == (instr \div 2048) % 2            \* bit 11

(* the instructions documented to set the condition codes *)
FlagOps == {OP_ADD, OP_AND, OP_NOT, OP_LD, OP_LDI, OP_LDR, OP_LEA}
IsFlagOp == Stepped /\ (instr \div 4096) \in FlagOps

(* C11: after JMP, and after JSR/JSRR with bit 11 = 0, PC equals the       *)
(* 16-bit contents of the register named by bits[8:6], not its index.      *)
C11_JumpThroughRegister ==
  (Completed /\ (IsOp(OP_JMP) \/ (IsOp(OP_JSR) /\ Mode11 = 0))) =>
    reg[PC] = OldReg(SR1)

(* C12: every JSR/JSRR step completes with R7 = oldPC + 1 (mod 2^16), in   *)
(* both modes; in mode 1 the new PC is that return address plus            *)
(* sign_extend(bits[10:0], 11).                                            *)
C12_JsrLinksAndJumps ==
  IsOp(OP_JSR) =>
    /\ ~panicked
    /\ reg[7] = NextPC
    /\ (Mode11 = 1 => reg[PC] = (NextPC + Off11) % U16)

(* C13: after a step of ADD, AND, NOT, LD, LDI, LDR or LEA, COND is the    *)
(* one of POS, ZRO, NEG given by the signed value of the destination       *)
(* register; after a step of any other instruction COND is unchanged.      *)
C13_CondPerInstruction ==
  Completed =>
    IF IsFlagOp
    THEN reg[COND] = FlagOf(reg[DR])
    ELSE reg[COND] = OldReg(COND)

(* C14: sign_extend(v, n) is total and, for n in 1..16 and v with only the *)
(* low n bits set, returns v when bit n-1 is 0 and v with every bit above  *)
(* n-1 set when bit n-1 is 1; in particular sign_extend(v, 16) = v.        *)
C14_SignExtendTotal ==
  se.done =>
    /\ ~se.panicked
    /\ se.out = SExt(se.n, se.size)
    /\ (se.size = 16 => se.out = se.n)

(* C15: new() yields halt true and every register and memory word 0;      *)
(* init() applied to any state yields halt false and PC = 0x3000 and       *)
(* leaves R0..R7, COND and all memory unchanged.                           *)
C15_Lifecycle ==
  /\ (halt = TRUE /\ mem = ZeroMem /\ \A r \in 0 .. (REG_SIZE - 1) : reg[r] = 0)
  /\ [][(pc = "new" /\ pc' = "loop") =>
          /\ halt' = FALSE
          /\ reg'[PC] = START
          /\ \A r \in (0 .. (REG_SIZE - 1)) \ {PC} : reg'[r] = reg[r]
          /\ mem' = mem]_vars

(* init() has run on a machine whose PC, R1 and memory had been written:   *)
(* of three writes only R1 and the memory word show, so the third was the  *)
(* PC preset that init() replaced by 0x3000                                *)
C15_Witness ==
  /\ pc = "loop" /\ nsteps = 0 /\ nsetup = 3
  /\ ~halt
  /\ reg[PC] = START /\ reg[1] = 3
  /\ \A r \in (0 .. (REG_SIZE - 1)) \ {1, PC} : reg[r] = 0
  /\ mem = (DataA :> 42)

(* C16: every step that fetches RTI (opcode 8) or RES (opcode 13) completes *)
(* without a fatal error, moves PC to oldPC + 1 and leaves R0..R7, COND,    *)
(* all memory and halt unchanged.                                           *)
C16_RtiResAreNoOps ==
  (IsOp(OP_RTI) \/ IsOp(OP_RES)) =>
    /\ ~panicked
    /\ reg[PC] = NextPC
    /\ \A r \in (0 .. 7) \cup {COND} : reg[r] = OldReg(r)
    /\ mem = old.mem
    /\ halt = FALSE

(* C17: a step that fetches a TRAP ends in a fatal error exactly when its  *)
(* vector (bits[7:0]) is outside the recognized table 0x20..0x25.          *)
C17_FatalOnlyOnUnknownVector ==
  IsOp(OP_TRAP) => (panicked <=> Vector \notin TrapVectors)

ChangedMem  == {a \in (DOMAIN mem) \cup (DOMAIN old.mem) : NowMem(a) # OldMem(a)}
ChangedRegs == {r \in 0 .. 7 : reg[r] # OldReg(r)}

(* C18: a non-fatal step changes at most one memory word, and only when    *)
(* the instruction is ST, STI or STR; among R0..R7 it changes at most one  *)
(* register: dr for ADD/AND/NOT/LD/LDI/LDR/LEA, R7 for JSR/TRAP, none for  *)
(* BR, JMP, ST, STI, STR, RTI, RES; halt changes only on TRAP HALT.        *)
C18_NoAliasing ==
  Completed =>
    /\ Cardinality(ChangedMem) <= 1
    /\ ChangedMem # {} => (IsOp(OP_ST) \/ IsOp(OP_STI) \/ IsOp(OP_STR))
    /\ Cardinality(ChangedRegs) <= 1
    /\ ChangedRegs \subseteq
         (IF IsFlagOp THEN {DR}
          ELSE IF IsOp(OP_JSR) \/ IsOp(OP_TRAP) THEN {7}
          ELSE {})
    /\ halt # FALSE => IsTrapHalt

(* a store has completed and changed exactly one word *)
C18_Witness ==
  /\ Completed /\ IsOp(OP_STR)
  /\ Cardinality(ChangedMem) = 1
  /\ ChangedRegs = {}

(* the words with every operand bit clear and with every operand bit set *)
ExtremeWords == {Encode(op, f) : op \in 0 .. 15, f \in {0, 4095}}

(* C19: for every instruction word, every register index decoded from an   *)
(* operand field is in 0..7 and every index step passes to the register    *)
(* accessors is in 0..9: no operand field names PC (8) or COND (9) and no   *)
(* index is out of range.                                                   *)
C19_RegisterIndexSafety ==
  /\ \A w \in ExtremeWords :
       /\ OperandFields(w) \subseteq 0 .. 7
       /\ RegIndexes(w) \subseteq 0 .. (REG_SIZE - 1)
  /\ Stepped =>
       /\ OperandFields(instr) \subseteq 0 .. 7
       /\ RegIndexes(instr) \subseteq 0 .. (REG_SIZE - 1)
       /\ DOMAIN reg = 0 .. (REG_SIZE - 1)

(* a step has decoded three register fields, one of them an operand R2 *)
C19_Witness ==
  /\ Completed /\ instr = I_ADDr(0, 1, 2)
  /\ OperandFields(instr) = {0, 1, 2}
  /\ RegIndexes(instr) = {0, 1, 2, PC, COND}

(* C20: in every state reached from new(), init() and non-fatal steps,     *)
(* COND is one of 0, POS, ZRO, NEG, and it is 0 only if no flag-setting    *)
(* instruction has executed since construction: a completed step of a      *)
(* flag-setting instruction, or one that began with COND # 0, ends with    *)
(* COND # 0.                                                               *)
C20_CondZeroOnlyBeforeFlags ==
  /\ reg[COND] \in {0, POS, ZRO, NEG}
  /\ (Completed /\ (IsFlagOp \/ OldReg(COND) # 0)) => reg[COND] # 0

====
